---- MODULE Spec2Model ----
(***************************************************************************)
(* Model of main.js: a command-line tool that dumps a MySQL database,      *)
(* zips the dump and uploads it to a Google Drive folder (backup), or      *)
(* lists, downloads, unzips and imports such an archive (restore).         *)
(*                                                                         *)
(* Strings that the program computes with (file names, shell commands)     *)
(* are sequences of one-character strings, so that template literals,      *)
(* String.prototype.replace and the shell's word splitting are computed    *)
(* as the code and the shell compute them.                                 *)
(***************************************************************************)
EXTENDS Integers, Sequences, FiniteSets, TLC

(***************************************************************************)
(* Bounds                                                                  *)
(***************************************************************************)
MaxInvocations == 3

(***************************************************************************)
(* String literals                                                         *)
(***************************************************************************)
StrEmpty == << >>
StrSpace == <<" ">>
StrDotZip == <<".", "z", "i", "p">>
StrDotSql == <<".", "s", "q", "l">>
StrBackupDash == <<"b", "a", "c", "k", "u", "p", "-">>
StrDash == <<"-">>
StrDashP == <<"-", "p">>
StrMysqldumpH == <<"m", "y", "s", "q", "l", "d", "u", "m", "p", " ", "-", "h", " ">>
StrMysqlH == <<"m", "y", "s", "q", "l", " ", "-", "h", " ">>
StrDashU == <<" ", "-", "u", " ">>
StrGt == <<" ", ">", " ">>
StrLt == <<" ", "<", " ">>

(***************************************************************************)
(* String functions of the JavaScript runtime                              *)
(***************************************************************************)
\* s.indexOf(pat), 1-based; 0 when pat does not occur in s
IndexOf(s, pat) ==
    LET hits == {i \in 1..(Len(s) - Len(pat) + 1) : SubSeq(s, i, i + Len(pat) - 1) = pat}
    IN IF hits = {} THEN 0 ELSE CHOOSE i \in hits : \A j \in hits : i <= j

\* s.includes(pat)
Includes(s, pat) == IndexOf(s, pat) # 0

\* s.replace(pat, rep) with a string pattern: only the first occurrence
StringReplace(s, pat, rep) ==
    LET i == IndexOf(s, pat)
    IN IF i = 0 THEN s
       ELSE SubSeq(s, 1, i - 1) \o rep \o SubSeq(s, i + Len(pat), Len(s))

\* s.replace(/[:.]/g, '-')
ReplaceColonDot(s) == [i \in 1..Len(s) |-> IF s[i] \in {":", "."} THEN "-" ELSE s[i]]

\* the words a POSIX shell splits an unquoted command line into
Words(s) ==
    LET starts == {i \in 1..Len(s) : s[i] # " " /\ (i = 1 \/ s[i - 1] = " ")}
        ends == {i \in 1..Len(s) : s[i] # " " /\ (i = Len(s) \/ s[i + 1] = " ")}
        Nth(S, k) == CHOOSE i \in S : Cardinality({j \in S : j < i}) = k - 1
    IN [k \in 1..Cardinality(starts) |-> SubSeq(s, Nth(starts, k), Nth(ends, k))]

\* the word that follows the redirection operator op in a command line
RedirectTarget(cmd, op) ==
    LET w == Words(cmd)
        hits == {i \in 1..(Len(w) - 1) : w[i] = op}
    IN IF hits = {} THEN << >>
       ELSE w[(CHOOSE i \in hits : \A j \in hits : i <= j) + 1]

Digit(n) == <<"0", "1", "2", "3", "4", "5", "6", "7", "8", "9">>[n + 1]

\* new Date(t).toISOString() for the instants t milliseconds after
\* 2024-01-01T00:00:00.000Z, t < 1000
toISOString(t) ==
    <<"2", "0", "2", "4", "-", "0", "1", "-", "0", "1", "T",
      "0", "0", ":", "0", "0", ":", "0", "0", ".">>
    \o <<Digit(t \div 100), Digit((t \div 10) % 10), Digit(t % 10)>>
    \o <<"Z">>

(***************************************************************************)
(* Configuration (process.env)                                             *)
(***************************************************************************)
requiredEnvVars ==
    <<"DB_HOST", "DB_USER", "DB_NAME",
      "GDRIVE_CLIENT_EMAIL", "GDRIVE_PRIVATE_KEY", "GDRIVE_FOLDER_ID">>

EnvVarNames ==
    {requiredEnvVars[i] : i \in 1..Len(requiredEnvVars)} \cup {"DB_PASSWORD"}

\* an environment variable is either undefined or a (possibly empty) string
Undefined == [present |-> FALSE, value |-> << >>]
Val(s) == [present |-> TRUE, value |-> s]

\* the database names the runs are tried with
DbNames == { <<"s", "h", "o", "p">>, <<"a", ".", "z", "i", "p">> }

EnvValues(v) ==
    {Undefined, Val(StrEmpty)} \cup
    CASE v = "DB_NAME" -> {Val(n) : n \in DbNames}
      [] v = "DB_PASSWORD" -> {Val(<<"p", "w">>)}
      [] v = "DB_HOST" -> {Val(<<"h">>)}
      [] v = "DB_USER" -> {Val(<<"u">>)}
      [] OTHER -> {Val(<<"x">>)}

\* !process.env[v]
Falsy(e, v) == ~e[v].present \/ e[v].value = << >>

\* the first required variable the validation loop rejects, or 0
FirstMissing(e) ==
    LET bad == {i \in 1..Len(requiredEnvVars) : Falsy(e, requiredEnvVars[i])}
    IN IF bad = {} THEN 0 ELSE CHOOSE i \in bad : \A j \in bad : i <= j

\* ConfigValid without the separate check of DB_PASSWORD
ConfigValidWithoutPassword(e) == FirstMissing(e) = 0

\* the module's top-level validation passes
ConfigValid(e) ==
    /\ FirstMissing(e) = 0
    /\ e["DB_PASSWORD"].present


(***************************************************************************)
(* State                                                                   *)
(***************************************************************************)
VARIABLES
    env,                \* process.env after dotenv.config()
    pc,                 \* the await (or prompt) the process is suspended at
    exitCode,           \* process.exitCode, the exit status once pc = "exited"
    now,                \* the clock, milliseconds
    runs,               \* invocations of the tool so far
    disk,               \* the working directory: file name -> content
    remote,             \* the Drive folder: records in creation order
    db,                 \* what the database holds: "original" or "restored"
    child,              \* command line of the running exec() child, or empty
    dumpFile,           \* runBackupProcess: dumpFile
    zipFile,            \* runBackupProcess: zipFile
    files,              \* runRestoreProcess: files
    fileToRestore,      \* runRestoreProcess: fileToRestore
    downloadedZipFile,  \* runRestoreProcess: downloadedZipFile
    extractedSqlFile,   \* runRestoreProcess: extractedSqlFile
    dest,               \* downloadFileFromDrive: the write stream dest
    events              \* what this invocation has done so far, in order

vars ==
    <<env, pc, exitCode, now, runs, disk, remote, db, child, dumpFile, zipFile,
      files, fileToRestore, downloadedZipFile, extractedSqlFile, dest, events>>

backupLocals == <<dumpFile, zipFile>>
restoreLocals == <<files, fileToRestore, downloadedZipFile, extractedSqlFile>>

(***************************************************************************)
(* The event history                                                       *)
(***************************************************************************)
E(kind) == [ev |-> kind, text |-> "", detail |-> "", file |-> << >>,
            files |-> << >>, id |-> 0, cmd |-> << >>]
EText(kind, t) == [E(kind) EXCEPT !.text = t]
EFile(kind, f) == [E(kind) EXCEPT !.file = f]
ECmd(c) == [E("exec") EXCEPT !.cmd = c]

Range(s) == {s[i] : i \in 1..Len(s)}
Positions(kind) == {i \in 1..Len(events) : events[i].ev = kind}
Happened(kind) == Positions(kind) # {}
Count(kind) == Cardinality(Positions(kind))

(***************************************************************************)
(* Local files and remote records                                          *)
(***************************************************************************)
\* a local file: the name of the entry it wraps (empty for a dump file), and
\* whether all of its bytes have been written
FileContent(entry, complete) == [entry |-> entry, complete |-> complete]
EmptyDisk == [f \in {} |-> FileContent(<< >>, FALSE)]
WriteFile(d, name, c) == [f \in DOMAIN d \cup {name} |-> IF f = name THEN c ELSE d[f]]
RemoveFile(d, name) == [f \in DOMAIN d \ {name} |-> d[f]]

NoRecord == [id |-> 0, name |-> << >>, entry |-> << >>, createdTime |-> 0]

Reverse(s) == [i \in 1..Len(s) |-> s[Len(s) + 1 - i]]

PageSize == 20

\* drive.files.list: name contains 'backup-', newest first, at most pageSize
\* (remote is in creation order and createdTime grows along it)
ListQuery(r) ==
    LET hits == SelectSeq(Reverse(r), LAMBDA f : Includes(f.name, StrBackupDash))
    IN SubSeq(hits, 1, IF Len(hits) < PageSize THEN Len(hits) ELSE PageSize)

(***************************************************************************)
(* Names and command lines                                                 *)
(***************************************************************************)
DB_HOST == env["DB_HOST"].value
DB_USER == env["DB_USER"].value
DB_PASSWORD == env["DB_PASSWORD"].value
DB_NAME == env["DB_NAME"].value

\* passwordArg without the test for an empty password
passwordArgAlways == StrDashP \o DB_PASSWORD

\* const passwordArg = DB_PASSWORD ? `-p${DB_PASSWORD}` : ''
passwordArg == IF DB_PASSWORD # << >> THEN StrDashP \o DB_PASSWORD ELSE StrEmpty

\* new Date().toISOString().replace(/[:.]/g, '-')
timestamp == ReplaceColonDot(toISOString(now))

\* `backup-${DB_NAME}-${timestamp}.sql`
DumpFileName == StrBackupDash \o DB_NAME \o StrDash \o timestamp \o StrDotSql

\* `${dumpFile}.zip`
ZipFileName(dump) == dump \o StrDotZip

\* zipFile.replace('.zip', '')
SqlFileName(zip) == StringReplace(zip, StrDotZip, StrEmpty)

\* `mysqldump -h ${DB_HOST} -u ${DB_USER} ${passwordArg} ${DB_NAME} > ${dumpFile}`
DumpCmd(file) ==
    StrMysqldumpH \o DB_HOST \o StrDashU \o DB_USER \o StrSpace \o passwordArg
    \o StrSpace \o DB_NAME \o StrGt \o file

\* `mysql -h ${DB_HOST} -u ${DB_USER} ${passwordArg} ${DB_NAME} < ${sqlFile}`
ImportCmd(file) ==
    StrMysqlH \o DB_HOST \o StrDashU \o DB_USER \o StrSpace \o passwordArg
    \o StrSpace \o DB_NAME \o StrLt \o file

(***************************************************************************)
(* cleanup                                                                 *)
(***************************************************************************)
\* cleanup with the try around the whole loop: the first unlinkSync that
\* throws ends the loop
RECURSIVE cleanupStopsAtFailure(_, _, _)
cleanupStopsAtFailure(d, fs, fails) ==
    IF fs = << >> THEN [disk |-> d, evs |-> << >>]
    ELSE LET f == Head(fs)
         IN IF f \in DOMAIN d
            THEN IF f \in fails
                 THEN [disk |-> d, evs |-> <<EFile("unlink_failed", f)>>]
                 ELSE LET r == cleanupStopsAtFailure(RemoveFile(d, f), Tail(fs), fails)
                      IN [disk |-> r.disk, evs |-> <<EFile("unlink", f)>> \o r.evs]
            ELSE cleanupStopsAtFailure(d, Tail(fs), fails)

\* cleanup(files) on disk d, where unlinkSync throws for the files in fails:
\* the disk it leaves and the unlinkSync calls it made
RECURSIVE cleanup(_, _, _)
cleanup(d, fs, fails) ==
    IF fs = << >> THEN [disk |-> d, evs |-> << >>]
    ELSE LET f == Head(fs)
         IN IF f \in DOMAIN d
            THEN IF f \in fails
                 THEN LET r == cleanup(d, Tail(fs), fails)
                      IN [disk |-> r.disk, evs |-> <<EFile("unlink_failed", f)>> \o r.evs]
                 ELSE LET r == cleanup(RemoveFile(d, f), Tail(fs), fails)
                      IN [disk |-> r.disk, evs |-> <<EFile("unlink", f)>> \o r.evs]
            ELSE cleanup(d, Tail(fs), fails)

\* [downloadedZipFile, extractedSqlFile].filter(Boolean)
FilterBoolean(fs) == SelectSeq(fs, LAMBDA f : f # << >>)

\* AfterPipeline of a showMainMenu that shows the menu again
AfterPipelineMenu == "menu"

\* where control is after the pipeline that showMainMenu awaited: the switch
\* breaks, showMainMenu returns and, nothing being pending, the process ends
AfterPipeline == "exited"

\* the finally block of a pipeline, then the end of the process: cleanup of fs
\* on disk d after the events evs, leaving exit status code
Finally(d, fs, evs, code) ==
    \E fails \in SUBSET (Range(fs) \cap DOMAIN d) :
        LET r == cleanup(d, fs, fails)
        IN /\ disk' = r.disk
           /\ events' = events \o evs \o <<[E("cleanup") EXCEPT !.files = fs]>> \o r.evs
           /\ exitCode' = code
           /\ pc' = AfterPipeline
           /\ child' = << >>

\* an 'error' event on a stream that has no 'error' listener: the error is
\* thrown out of the event loop and the process dies with status 1, no
\* catch or finally block runs
Uncaught(d, evs) ==
    /\ disk' = d
    /\ events' = events \o evs \o <<E("uncaught")>>
    /\ exitCode' = 1
    /\ pc' = "exited"
    /\ child' = << >>


(***************************************************************************)
(* Start of the process                                                    *)
(***************************************************************************)
Init ==
    /\ \E host \in EnvValues("DB_HOST"), user \in EnvValues("DB_USER"),
          password \in EnvValues("DB_PASSWORD"), name \in EnvValues("DB_NAME"),
          email \in EnvValues("GDRIVE_CLIENT_EMAIL"), key \in EnvValues("GDRIVE_PRIVATE_KEY"),
          folder \in EnvValues("GDRIVE_FOLDER_ID") :
            env = [v \in EnvVarNames |->
                     CASE v = "DB_HOST" -> host
                       [] v = "DB_USER" -> user
                       [] v = "DB_PASSWORD" -> password
                       [] v = "DB_NAME" -> name
                       [] v = "GDRIVE_CLIENT_EMAIL" -> email
                       [] v = "GDRIVE_PRIVATE_KEY" -> key
                       [] v = "GDRIVE_FOLDER_ID" -> folder]
    /\ pc = "load"
    /\ exitCode = 0
    /\ now = 0
    /\ runs = 1
    /\ disk = EmptyDisk
    /\ remote = << >>
    /\ db = "original"
    /\ child = << >>
    /\ dumpFile = << >>
    /\ zipFile = << >>
    /\ files = << >>
    /\ fileToRestore = NoRecord
    /\ downloadedZipFile = << >>
    /\ extractedSqlFile = << >>
    /\ dest = "none"
    /\ events = << >>

FailureExitCode == 1

\* the module's top level: validation of the environment, then showMainMenu()
\* up to its prompt; a throw at the top level ends the process with status 1
Startup ==
    /\ pc = "load"
    /\ IF ConfigValid(env)
       THEN /\ pc' = "menu"
            /\ events' = Append(events, EText("prompt", "menu"))
            /\ exitCode' = exitCode
       ELSE /\ pc' = "exited"
            /\ events' = Append(events, E("config_error"))
            /\ exitCode' = FailureExitCode
    /\ UNCHANGED <<env, now, runs, disk, remote, db, child, backupLocals, restoreLocals, dest>>

(***************************************************************************)
(* showMainMenu                                                            *)
(***************************************************************************)
\* case 'backup': runBackupProcess() up to the exec() of dumpDatabase
MenuBackup ==
    /\ pc = "menu"
    /\ dumpFile' = DumpFileName
    /\ zipFile' = ZipFileName(DumpFileName)
    /\ child' = DumpCmd(DumpFileName)
    /\ events' = events \o <<EText("menu", "backup"), ECmd(DumpCmd(DumpFileName))>>
    /\ pc' = "b_dump"
    /\ UNCHANGED <<env, exitCode, now, runs, disk, remote, db, restoreLocals, dest>>

\* case 'restore': runRestoreProcess() up to drive.files.list
MenuRestore ==
    /\ pc = "menu"
    /\ events' = events \o <<EText("menu", "restore"), E("list")>>
    /\ pc' = "r_list"
    /\ UNCHANGED <<env, exitCode, now, runs, disk, remote, db, child, backupLocals,
                   restoreLocals, dest>>

\* case 'exit': process.exit(0)
MenuExit ==
    /\ pc = "menu"
    /\ events' = Append(events, EText("menu", "exit"))
    /\ exitCode' = 0
    /\ pc' = "exited"
    /\ UNCHANGED <<env, now, runs, disk, remote, db, child, backupLocals, restoreLocals, dest>>

\* the menu prompt rejects: showMainMenu().catch, process.exit(1)
MenuPromptError ==
    /\ pc = "menu"
    /\ events' = Append(events, E("toplevel_error"))
    /\ exitCode' = FailureExitCode
    /\ pc' = "exited"
    /\ UNCHANGED <<env, now, runs, disk, remote, db, child, backupLocals, restoreLocals, dest>>

(***************************************************************************)
(* runBackupProcess                                                        *)
(***************************************************************************)
\* what the tool writes on stderr when it fails
Diagnostics == {"Access denied"}

\* the Error a failed exec() hands to its callback: its message is
\* `Command failed: ${cmd}\n${stderr}`
ExecError(cmd, stderr) == [text |-> "Command failed", cmd |-> cmd, detail |-> stderr]

\* new Error(`Database dump failed: ${error.message}`)
DumpError(error) == [text |-> "Database dump failed", detail |-> error.detail]

\* new Error(`Database restore failed: ${error.message}`)
ImportError(error) == [text |-> "Database restore failed", detail |-> error.detail]

\* an error of a library (archiver, unzipper, googleapis), passed on as it is
LibError(what) == [text |-> what, detail |-> ""]

\* console.error('... failed:', error.message) in a catch block
Caught(pipeline, err) ==
    [E("caught") EXCEPT !.text = err.text, !.detail = err.detail]

\* the files the finally block of runBackupProcess hands to cleanup
BackupCleanupFiles == <<dumpFile, zipFile>>

\* BackupCatch without process.exitCode = 1
BackupCatchKeepsExitCode(d, evs, err) ==
    Finally(d, BackupCleanupFiles, evs \o <<Caught("backup", err)>>, exitCode)

\* catch and finally of runBackupProcess
BackupCatch(d, evs, err) ==
    Finally(d, BackupCleanupFiles, evs \o <<Caught("backup", err)>>, FailureExitCode)

\* DumpRejects of a callback that ignores its error argument
DumpNeverRejects(error) == FALSE

\* dumpDatabase: if (error) return reject(...)
DumpRejects(error) == error

\* the exec() callback of dumpDatabase. The shell opens the redirection
\* target before it runs the tool, so a failed tool leaves a file behind;
\* a shell that could not be started leaves none.
DumpCallback ==
    /\ pc = "b_dump"
    /\ \E outcome \in {"ok", "tool_failed", "not_started"} :
       \E stderr \in (IF outcome = "tool_failed" THEN Diagnostics ELSE {""}) :
        LET target == RedirectTarget(child, <<">">>)
            d == IF outcome = "not_started" THEN disk
                 ELSE WriteFile(disk, target, FileContent(<< >>, outcome = "ok"))
            made == IF outcome = "not_started" THEN << >> ELSE <<EFile("create", target)>>
            failed == IF outcome = "ok" THEN << >>
                      ELSE <<[EText("error", "dump") EXCEPT !.detail = stderr]>>
        IN IF DumpRejects(outcome # "ok")
           THEN BackupCatch(d, made \o failed, DumpError(ExecError(child, stderr)))
           ELSE \* zipFileFunc(dumpFile, zipFile): createWriteStream(zipFile)
                /\ disk' = WriteFile(d, zipFile, FileContent(<< >>, FALSE))
                /\ events' = events \o made \o failed
                                     \o <<EFile("pack", dumpFile), EFile("create", zipFile)>>
                /\ pc' = "b_pack"
                /\ child' = << >>
                /\ exitCode' = exitCode
    /\ UNCHANGED <<env, now, runs, remote, db, backupLocals, restoreLocals, dest>>

\* PackClose of a runBackupProcess that does not await uploadToGoogleDrive:
\* the upload is started and the function goes on to its end
PackCloseNoAwait ==
    /\ pc = "b_pack"
    /\ dumpFile \in DOMAIN disk
    /\ Finally(WriteFile(disk, zipFile, FileContent(dumpFile, TRUE)), <<dumpFile, zipFile>>,
               <<E("pack_done"), EFile("upload", zipFile), EText("success", "backup")>>,
               exitCode)
    /\ UNCHANGED <<env, now, runs, remote, db, backupLocals, restoreLocals, dest>>

\* output.on('close'): the archive is written; resolve(), then
\* uploadToGoogleDrive(zipFile) up to drive.files.create
PackClose ==
    /\ pc = "b_pack"
    /\ dumpFile \in DOMAIN disk
    /\ disk' = WriteFile(disk, zipFile, FileContent(dumpFile, TRUE))
    /\ events' = events \o <<E("pack_done"), EFile("upload", zipFile)>>
    /\ pc' = "b_upload"
    /\ UNCHANGED <<env, exitCode, now, runs, remote, db, child, backupLocals, restoreLocals, dest>>

\* archive.on('error') (the source cannot be read or compressed): reject
PackArchiveError ==
    /\ pc = "b_pack"
    /\ BackupCatch(disk, <<[EText("error", "pack") EXCEPT !.detail = "source"]>>,
                   LibError("Compression failed"))
    /\ UNCHANGED <<env, now, runs, remote, db, backupLocals, restoreLocals, dest>>

\* 'error' on output (the archive cannot be written): no listener
PackOutputError ==
    /\ pc = "b_pack"
    /\ Uncaught(disk, <<[EText("error", "pack") EXCEPT !.detail = "destination"]>>)
    /\ UNCHANGED <<env, now, runs, remote, db, backupLocals, restoreLocals, dest>>

\* drive.files.create resolves
UploadDone ==
    /\ pc = "b_upload"
    /\ zipFile \in DOMAIN disk
    /\ remote' = Append(remote, [id |-> Len(remote) + 1, name |-> zipFile,
                                 entry |-> disk[zipFile].entry, createdTime |-> now])
    /\ Finally(disk, BackupCleanupFiles, <<E("upload_done"), EText("success", "backup")>>,
               exitCode)
    /\ UNCHANGED <<env, now, runs, db, backupLocals, restoreLocals, dest>>

\* drive.files.create rejects
UploadFail ==
    /\ pc = "b_upload"
    /\ BackupCatch(disk, <<EText("error", "upload")>>, LibError("upload"))
    /\ UNCHANGED <<env, now, runs, remote, db, backupLocals, restoreLocals, dest>>


(***************************************************************************)
(* runRestoreProcess                                                       *)
(***************************************************************************)
\* the files the finally block of runRestoreProcess hands to cleanup
RestoreCleanupFiles == FilterBoolean(<<downloadedZipFile, extractedSqlFile>>)

\* catch and finally of runRestoreProcess
RestoreCatch(d, evs, err) ==
    Finally(d, RestoreCleanupFiles, evs \o <<Caught("restore", err)>>, FailureExitCode)

\* NothingToRestore without the test of the length
NeverNothing(fs) == FALSE

\* if (files.length === 0)
NothingToRestore(fs) == Len(fs) = 0

\* drive.files.list resolves: return when nothing is listed, else the
\* selection prompt
ListDone ==
    /\ pc = "r_list"
    /\ LET fs == ListQuery(remote)
       IN IF NothingToRestore(fs)
          THEN /\ Finally(disk, RestoreCleanupFiles, <<E("nothing_to_restore")>>, exitCode)
               /\ files' = fs
          ELSE /\ files' = fs
               /\ events' = Append(events, EText("prompt", "select"))
               /\ pc' = "r_select"
               /\ UNCHANGED <<exitCode, disk, child>>
    /\ UNCHANGED <<env, now, runs, remote, db, backupLocals, fileToRestore,
                   downloadedZipFile, extractedSqlFile, dest>>

\* drive.files.list rejects
ListFail ==
    /\ pc = "r_list"
    /\ RestoreCatch(disk, <<EText("error", "list")>>, LibError("list"))
    /\ UNCHANGED <<env, now, runs, remote, db, backupLocals, restoreLocals, dest>>

\* the user picks one of the listed records; the confirmation prompt
Select ==
    /\ pc = "r_select"
    /\ \E i \in 1..Len(files) :
        /\ fileToRestore' = files[i]
        /\ events' = events \o <<[E("selected") EXCEPT !.id = files[i].id],
                                 EText("prompt", "confirm")>>
    /\ pc' = "r_confirm"
    /\ UNCHANGED <<env, exitCode, now, runs, disk, remote, db, child, backupLocals, files,
                   downloadedZipFile, extractedSqlFile, dest>>

\* a prompt of runRestoreProcess rejects
PromptError ==
    /\ pc \in {"r_select", "r_confirm"}
    /\ RestoreCatch(disk, <<EText("error", "prompt")>>, LibError("prompt"))
    /\ UNCHANGED <<env, now, runs, remote, db, backupLocals, restoreLocals, dest>>

\* ConfirmDefault of a prompt that defaults to yes
ConfirmDefaultYes == TRUE

\* default: false of the confirmation prompt
ConfirmDefault == FALSE

\* the value of the confirm prompt for what the user does at it
Confirm(answer) == IF answer = "enter" THEN ConfirmDefault ELSE answer = "y"

\* the user answers the confirmation prompt: return when declined, else
\* downloadFileFromDrive up to drive.files.get; createWriteStream(fileName)
\* creates or truncates the local file
Confirmation ==
    /\ pc = "r_confirm"
    /\ \E answer \in {"y", "n", "enter"} :
        IF ~Confirm(answer)
        THEN /\ Finally(disk, RestoreCleanupFiles,
                        <<EText("answer", answer), E("cancelled")>>, exitCode)
             /\ UNCHANGED <<downloadedZipFile, dest>>
        ELSE /\ downloadedZipFile' = fileToRestore.name
             /\ disk' = WriteFile(disk, fileToRestore.name, FileContent(<< >>, FALSE))
             /\ dest' = "open"
             /\ events' = events \o
                    <<EText("answer", answer),
                      [E("download") EXCEPT !.id = fileToRestore.id, !.file = fileToRestore.name],
                      EFile("create", fileToRestore.name)>>
             /\ pc' = "r_get"
             /\ UNCHANGED <<exitCode, child>>
    /\ UNCHANGED <<env, now, runs, remote, db, backupLocals, files, fileToRestore,
                   extractedSqlFile>>

\* the remote record a file id names
Record(id) == CHOOSE r \in Range(remote) : r.id = id

\* drive.files.get resolves: the response stream is piped into dest
GetDone ==
    /\ pc = "r_get"
    /\ disk' = WriteFile(disk, downloadedZipFile,
                         FileContent(Record(fileToRestore.id).entry, FALSE))
    /\ pc' = "r_download"
    /\ UNCHANGED <<env, exitCode, now, runs, remote, db, child, backupLocals, restoreLocals,
                   dest, events>>

\* drive.files.get rejects: reject(error)
GetFail ==
    /\ pc = "r_get"
    /\ RestoreCatch(disk, <<EText("error", "download")>>, LibError("download"))
    /\ UNCHANGED <<env, now, runs, remote, db, backupLocals, restoreLocals, dest>>

\* res.data 'error': reject(err)
DownloadError ==
    /\ pc = "r_download"
    /\ RestoreCatch(disk, <<EText("error", "download")>>, LibError("download"))
    /\ UNCHANGED <<env, now, runs, remote, db, backupLocals, restoreLocals, dest>>

\* res.data 'end': resolve(); pipe ends dest, which has still to flush;
\* then unzipRestoreFile(downloadedZipFile) up to the events of the extractor
DownloadEnd ==
    /\ pc = "r_download"
    /\ dest' = "ending"
    /\ events' = events \o <<E("download_done"), EFile("unzip", downloadedZipFile)>>
    /\ pc' = "r_unzip"
    /\ UNCHANGED <<env, exitCode, now, runs, disk, remote, db, child, backupLocals,
                   restoreLocals>>

\* dest 'finish': every byte of the download is in the local file
DestFinish ==
    /\ dest = "ending"
    /\ dest' = "finished"
    /\ disk' = IF downloadedZipFile \in DOMAIN disk
               THEN WriteFile(disk, downloadedZipFile,
                              FileContent(disk[downloadedZipFile].entry, TRUE))
               ELSE disk
    /\ UNCHANGED <<env, pc, exitCode, now, runs, remote, db, child, backupLocals,
                   restoreLocals, events>>

\* 'error' on dest (the local file cannot be written): no listener
DestError ==
    /\ dest \in {"open", "ending"}
    /\ pc \in {"r_get", "r_download", "r_unzip", "r_import"}
    /\ Uncaught(disk, <<EText("error", "download")>>)
    /\ dest' = "none"
    /\ UNCHANGED <<env, now, runs, remote, db, backupLocals, restoreLocals>>

\* Extract 'close': the entry of the archive is written under its own name;
\* resolve(sqlFile), then importDatabase(sqlFile) up to its exec()
UnzipClose ==
    /\ pc = "r_unzip"
    /\ downloadedZipFile \in DOMAIN disk
    /\ disk[downloadedZipFile].complete
    /\ LET entry == disk[downloadedZipFile].entry
           sqlFile == SqlFileName(downloadedZipFile)
       IN /\ disk' = WriteFile(disk, entry, FileContent(<< >>, TRUE))
          /\ extractedSqlFile' = sqlFile
          /\ child' = ImportCmd(sqlFile)
          /\ events' = events \o <<EFile("create", entry), E("unzip_done"),
                                   EFile("import", sqlFile), ECmd(ImportCmd(sqlFile))>>
    /\ pc' = "r_import"
    /\ UNCHANGED <<env, exitCode, now, runs, remote, db, backupLocals, files, fileToRestore,
                   downloadedZipFile, dest>>

\* Extract 'error': reject(err); the extractor may have written part of the
\* entry before it failed
UnzipError ==
    /\ pc = "r_unzip"
    /\ \E partial \in BOOLEAN :
        LET entry == IF downloadedZipFile \in DOMAIN disk
                     THEN disk[downloadedZipFile].entry ELSE << >>
        IN /\ partial => entry # << >>
           /\ RestoreCatch(IF partial THEN WriteFile(disk, entry, FileContent(<< >>, FALSE))
                           ELSE disk,
                           (IF partial THEN <<EFile("create", entry)>> ELSE << >>)
                           \o <<EText("error", "unzip")>>,
                           LibError("unzip"))
    /\ UNCHANGED <<env, now, runs, remote, db, backupLocals, restoreLocals, dest>>

\* 'error' on the read stream of the archive: no listener
UnzipReadError ==
    /\ pc = "r_unzip"
    /\ Uncaught(disk, <<EText("error", "unzip")>>)
    /\ dest' = "none"
    /\ UNCHANGED <<env, now, runs, remote, db, backupLocals, restoreLocals>>

\* importDatabase: if (error) return reject(...)
ImportRejects(error) == error

\* the exec() callback of importDatabase; the shell cannot start the tool
\* when the file of the input redirection does not exist
ImportCallback ==
    /\ pc = "r_import"
    /\ \E ok \in BOOLEAN :
       \E stderr \in (IF ok THEN {""} ELSE Diagnostics) :
        LET source == RedirectTarget(child, <<"<">>)
            failed == IF ok THEN << >>
                      ELSE <<[EText("error", "import") EXCEPT !.detail = stderr]>>
        IN /\ ok => source \in DOMAIN disk
           /\ db' = IF ok THEN "restored" ELSE db
           /\ IF ImportRejects(~ok)
              THEN RestoreCatch(disk, failed, ImportError(ExecError(child, stderr)))
              ELSE Finally(disk, RestoreCleanupFiles,
                           (IF ok THEN <<EFile("imported", source)>> ELSE failed)
                           \o <<EText("success", "restore")>>,
                           exitCode)
    /\ UNCHANGED <<env, now, runs, remote, backupLocals, restoreLocals, dest>>

(***************************************************************************)
(* The next invocation of the tool                                         *)
(***************************************************************************)
\* the process has ended and the tool is started again, later, in the same
\* working directory with the same environment
Relaunch ==
    /\ pc = "exited"
    /\ dest # "ending"
    /\ runs < MaxInvocations
    /\ runs' = runs + 1
    /\ now' = now + 1
    /\ pc' = "load"
    /\ exitCode' = 0
    /\ child' = << >>
    /\ dumpFile' = << >>
    /\ zipFile' = << >>
    /\ files' = << >>
    /\ fileToRestore' = NoRecord
    /\ downloadedZipFile' = << >>
    /\ extractedSqlFile' = << >>
    /\ dest' = "none"
    /\ events' = << >>
    /\ UNCHANGED <<env, disk, remote, db>>

Next ==
    \/ Startup
    \/ MenuBackup
    \/ MenuRestore
    \/ MenuExit
    \/ MenuPromptError
    \/ DumpCallback
    \/ PackClose
    \/ PackArchiveError
    \/ PackOutputError
    \/ UploadDone
    \/ UploadFail
    \/ ListDone
    \/ ListFail
    \/ Select
    \/ PromptError
    \/ Confirmation
    \/ GetDone
    \/ GetFail
    \/ DownloadError
    \/ DownloadEnd
    \/ DestFinish
    \/ DestError
    \/ UnzipClose
    \/ UnzipError
    \/ UnzipReadError
    \/ ImportCallback
    \/ Relaunch

Spec == Init /\ [][Next]_vars


(***************************************************************************)
(* Vocabulary of the properties                                            *)
(***************************************************************************)
MenuChoice(c) == \E i \in Positions("menu") : events[i].text = c
IsBackupRun == MenuChoice("backup")
IsRestoreRun == MenuChoice("restore")

\* the files unlinkSync was called on, the files the run created, the
\* stages in which the environment reported a failure
UnlinkAttempts == {events[i].file : i \in Positions("unlink") \cup Positions("unlink_failed")}
CreatedFiles == {events[i].file : i \in Positions("create")}
FailedStages == {events[i].text : i \in Positions("error")}

\* an event of kind k with text t happened before position i
Earlier(i, k, t) == \E j \in 1..(i - 1) : events[j].ev = k /\ events[j].text = t
\* no event of one of the kinds ks happened after position i
NoneAfter(i, ks) == \A j \in (i + 1)..Len(events) : events[j].ev \notin ks

\* s ends with pat
EndsWith(s, pat) ==
    /\ Len(s) >= Len(pat)
    /\ SubSeq(s, Len(s) - Len(pat) + 1, Len(s)) = pat

\* the calls on the database tool and on the remote store
ExternalCalls == {"exec", "list", "download", "upload"}

(***************************************************************************)
(* C1                                                                      *)
(***************************************************************************)
\* C1: every backup run, whichever stage fails or none, has invoked cleanup
\* exactly once when it ends, and the paths cleanup called unlinkSync on are
\* exactly the local files the run had created.
C1_CleanupOnceOfCreated ==
    (pc = "exited" /\ IsBackupRun) =>
        /\ Count("cleanup") = 1
        /\ UnlinkAttempts = CreatedFiles

(***************************************************************************)
(* C2                                                                      *)
(***************************************************************************)
\* C2: a restore run that failed in download, unpack or import has, when it
\* ends, gone through cleanup exactly once and set the failure status, and
\* cleanup has called unlinkSync on every local file the run created, a
\* partly extracted dump file included.
C2_FailedRestoreCleansUp ==
    (pc = "exited" /\ IsRestoreRun /\ FailedStages \cap {"download", "unzip", "import"} # {}) =>
        /\ Count("cleanup") = 1
        /\ exitCode = 1
        /\ CreatedFiles \subseteq UnlinkAttempts

(***************************************************************************)
(* C3                                                                      *)
(***************************************************************************)
RestoreSideEffects == {"download", "create", "unzip", "import", "imported", "exec"}

\* C3: in a restore run every download, local file creation, unpack and
\* import comes after an explicit "y" at the confirmation prompt (Enter
\* alone takes the default, which is negative); once the user has declined,
\* none of them has happened, and when the run ends cleanup has been
\* invoked with nothing to delete, and the disk and the database are as
\* they were.
C3_NothingBeforeConfirmation ==
    IsRestoreRun =>
        /\ \A i \in 1..Len(events) :
              events[i].ev \in RestoreSideEffects => Earlier(i, "answer", "y")
        /\ (\E i \in Positions("answer") : events[i].text \in {"n", "enter"}) =>
              /\ \A i \in 1..Len(events) : events[i].ev \notin RestoreSideEffects
              /\ UnlinkAttempts = {}
              /\ pc = "exited"
              /\ exitCode = 0
              /\ \A i \in Positions("cleanup") : events[i].files = << >>

\* a run in which the user pressed Enter at the confirmation prompt
C3_Witness ==
    /\ pc = "exited"
    /\ \E i \in Positions("answer") : events[i].text = "enter"
    /\ Happened("cancelled")
    /\ Count("cleanup") = 1

(***************************************************************************)
(* C4                                                                      *)
(***************************************************************************)
\* C4: a restore run whose listing has returned and found no record has
\* ended: no selection or confirmation prompt was shown, nothing was
\* downloaded, unpacked or imported, and no local file was created.
C4_EmptyListingEndsRun ==
    (IsRestoreRun /\ pc # "r_list" /\ "list" \notin FailedStages /\ ListQuery(remote) = << >>) =>
        /\ pc = "exited"
        /\ \A i \in Positions("prompt") : events[i].text = "menu"
        /\ \A i \in 1..Len(events) : events[i].ev \notin RestoreSideEffects
        /\ UnlinkAttempts = {}

C4_Witness ==
    /\ pc = "exited"
    /\ IsRestoreRun
    /\ Happened("nothing_to_restore")
    /\ "list" \notin FailedStages

(***************************************************************************)
(* C5                                                                      *)
(***************************************************************************)
\* C5: in a backup run pack starts only after the dump tool has been run,
\* upload only after pack is done, nothing is started after a stage has
\* failed, and when the dump tool fails the error the run reports is a dump
\* failure with the tool's stderr, no archive is created, no upload is
\* attempted, and the run ends with exit status 1 after cleanup.
C5_BackupStagesInOrder ==
    IsBackupRun =>
        /\ \A i \in Positions("pack") : \E j \in 1..(i - 1) : events[j].ev = "exec"
        /\ \A i \in Positions("upload") : \E j \in 1..(i - 1) : events[j].ev = "pack_done"
        /\ \A i \in Positions("pack_done") : \E j \in 1..(i - 1) : events[j].ev = "pack"
        /\ \A i \in Positions("error") : NoneAfter(i, {"exec", "pack", "pack_done", "upload"})
        /\ \A i \in Positions("error") :
              events[i].text = "dump" =>
                /\ ~Happened("pack") /\ ~Happened("upload")
                /\ zipFile \notin CreatedFiles
                /\ \E j \in Positions("caught") :
                      /\ events[j].text = "Database dump failed"
                      /\ events[j].detail = events[i].detail
                /\ \E j \in Positions("cleanup") : j > i
                /\ pc = "exited"
                /\ exitCode = 1

\* the dump tool failed with "Access denied"
C5_Witness ==
    /\ pc = "exited"
    /\ exitCode = 1
    /\ \E i \in Positions("error") : events[i].text = "dump" /\ events[i].detail = "Access denied"
    /\ \E i \in Positions("caught") : events[i].detail = "Access denied"

(***************************************************************************)
(* C6                                                                      *)
(***************************************************************************)
\* C6: in a confirmed restore run the one download is issued for the
\* identifier of the record the user selected, unpack starts after the
\* download is done, import after unpack is done, cleanup comes last, and
\* once download and unpack are done cleanup calls unlinkSync on both the
\* downloaded archive and the extracted dump file.
C6_SelectedRecordRestored ==
    IsRestoreRun =>
        /\ Count("download") <= 1
        /\ \A i \in Positions("download") :
              \E j \in 1..(i - 1) : /\ events[j].ev = "selected"
                                    /\ events[j].id = events[i].id
                                    /\ fileToRestore.id = events[i].id
        /\ \A i \in Positions("unzip") : \E j \in 1..(i - 1) : events[j].ev = "download_done"
        /\ \A i \in Positions("import") : \E j \in 1..(i - 1) : events[j].ev = "unzip_done"
        /\ \A i \in Positions("cleanup") : NoneAfter(i, {"download", "unzip", "import", "exec"})
        /\ (pc = "exited" /\ Happened("unzip_done")) =>
              /\ Count("cleanup") = 1
              /\ Cardinality(CreatedFiles) = 2
              /\ CreatedFiles \subseteq UnlinkAttempts

(***************************************************************************)
(* C7                                                                      *)
(***************************************************************************)
\* C7: when the process has ended its exit status is 1 if a stage failed or
\* the top level caught or threw an error, and 0 otherwise: 0 after a
\* successful backup or restore, after a declined confirmation, after an
\* empty listing and after the menu choice Exit.
C7_ExitCode ==
    pc = "exited" =>
        /\ exitCode \in {0, 1}
        /\ exitCode = 1 <=> \/ FailedStages # {}
                            \/ Happened("toplevel_error")
                            \/ Happened("config_error")
        /\ Happened("success") => exitCode = 0
        /\ Happened("cancelled") => exitCode = 0
        /\ Happened("nothing_to_restore") => exitCode = 0
        /\ MenuChoice("exit") => exitCode = 0

\* a backup that failed in its upload
C7_Witness ==
    /\ pc = "exited"
    /\ IsBackupRun
    /\ "upload" \in FailedStages
    /\ exitCode = 1

(***************************************************************************)
(* C8                                                                      *)
(***************************************************************************)
\* C8: with any of the seven variables undefined the process ends with a
\* configuration error before the menu is shown and before any call on the
\* database tool or the remote store; with the six others set and
\* DB_PASSWORD defined but empty the configuration is accepted.
C8_MissingConfigFailsFast ==
    /\ (\E v \in EnvVarNames : ~env[v].present) =>
          /\ \A i \in 1..Len(events) : events[i].ev \notin ExternalCalls \cup {"prompt", "menu"}
          /\ pc \in {"load", "exited"}
          /\ pc = "exited" => (Happened("config_error") /\ exitCode = 1)
    /\ (/\ \A i \in 1..Len(requiredEnvVars) :
              /\ env[requiredEnvVars[i]].present
              /\ env[requiredEnvVars[i]].value # << >>
        /\ env["DB_PASSWORD"].present
        /\ env["DB_PASSWORD"].value = << >>) =>
          /\ ~Happened("config_error")
          /\ pc # "load" => Happened("prompt")

\* DB_PASSWORD alone is undefined and the process has ended
C8_Witness ==
    /\ pc = "exited"
    /\ ~env["DB_PASSWORD"].present
    /\ \A i \in 1..Len(requiredEnvVars) : ~Falsy(env, requiredEnvVars[i])
    /\ Happened("config_error")

(***************************************************************************)
(* C9                                                                      *)
(***************************************************************************)
IsPasswordFlag(w) == Len(w) >= 2 /\ SubSeq(w, 1, 2) = <<"-", "p">>

\* C9: of every command the process runs (mysqldump and mysql alike), with
\* DB_PASSWORD empty no word is a password flag, and with DB_PASSWORD
\* non-empty exactly one word is, namely -p followed by the password, as
\* the word after the user.
C9_PasswordFlag ==
    \A i \in Positions("exec") :
      \A w \in {Words(events[i].cmd)} :
        LET flags == {k \in 1..Len(w) : IsPasswordFlag(w[k])}
        IN /\ w[1] \in {<<"m", "y", "s", "q", "l", "d", "u", "m", "p">>, <<"m", "y", "s", "q", "l">>}
           /\ IF env["DB_PASSWORD"].value = << >>
              THEN /\ flags = {}
                   /\ \A k \in 1..Len(w) : w[k] # <<"-", "p">>
                   /\ Len(w) = 8
              ELSE /\ flags = {6}
                   /\ w[6] = <<"-", "p">> \o env["DB_PASSWORD"].value
                   /\ Len(w) = 9

\* the import command of a restore with an empty password
C9_Witness ==
    /\ env["DB_PASSWORD"].value = << >>
    /\ \E i \in Positions("exec") : Words(events[i].cmd)[1] = <<"m", "y", "s", "q", "l">>

(***************************************************************************)
(* C10                                                                     *)
(***************************************************************************)
\* C10: backup names the dump file backup-<dbname>-<timestamp>.sql and the
\* archive <dumpfile>.zip, and the name restore derives for the extracted
\* file of an archive is the name of the entry the archive holds, whatever
\* the database name.
C10_NamingRoundTrip ==
    /\ pc \in {"b_dump", "b_pack", "b_upload"} =>
          /\ dumpFile = StrBackupDash \o env["DB_NAME"].value \o StrDash
                        \o ReplaceColonDot(toISOString(now)) \o StrDotSql
          /\ zipFile = dumpFile \o StrDotZip
    /\ pc = "r_import" =>
          /\ EndsWith(downloadedZipFile, StrDotZip)
          /\ extractedSqlFile = disk[downloadedZipFile].entry

(***************************************************************************)
(* C11                                                                     *)
(***************************************************************************)
\* C11: no stage starts before the file the stage before it writes is
\* complete: pack starts on a complete dump file, upload on a complete
\* archive, and unpack starts reading the downloaded archive only when the
\* download's write stream has finished writing it.
C11_NoStageOverlap ==
    /\ pc = "b_pack" => (dumpFile \in DOMAIN disk /\ disk[dumpFile].complete)
    /\ pc = "b_upload" => (zipFile \in DOMAIN disk /\ disk[zipFile].complete)
    /\ pc = "r_unzip" =>
          /\ dest = "finished"
          /\ downloadedZipFile \in DOMAIN disk
          /\ disk[downloadedZipFile].complete

(***************************************************************************)
(* C12                                                                     *)
(***************************************************************************)
\* C12: a run that has started its first side-effecting stage (the dump of
\* a backup, the download of a restore) does not end before it has gone
\* through cleanup, and it ends Succeeded or Failed: every failure a tool or
\* a stream signalled has been delivered to the pipeline's catch block, none
\* has ended the process past it.
C12_StartedRunReachesCleanup ==
    (pc = "exited" /\ (Happened("exec") \/ Happened("download"))) =>
        /\ Count("cleanup") = 1
        /\ Happened("success") \/ Happened("caught")
        /\ ~Happened("uncaught")
        /\ \A i \in Positions("error") : \E j \in Positions("caught") : j > i

(***************************************************************************)
(* C13                                                                     *)
(***************************************************************************)
\* C13: in a backup run pack is reported done, and upload started, only
\* with the archive completely written; and a pack failure, be it of the
\* source (it cannot be read) or of the destination (it cannot be written),
\* is reported to the pipeline as a compression failure, after which no
\* upload is started.
C13_PackReportsFailure ==
    IsBackupRun =>
        /\ \A i \in Positions("upload") : \E j \in 1..(i - 1) : events[j].ev = "pack_done"
        /\ (Happened("pack_done") /\ pc # "exited") =>
              (zipFile \in DOMAIN disk /\ disk[zipFile].complete)
        /\ \A i \in Positions("error") :
              events[i].text = "pack" =>
                /\ events[i].detail \in {"source", "destination"}
                /\ ~Happened("upload")
                /\ \E j \in Positions("caught") :
                      j > i /\ events[j].text = "Compression failed"

(***************************************************************************)
(* C14                                                                     *)
(***************************************************************************)
\* C14: when a run has ended, of every path handed to cleanup: unlinkSync
\* was called on it at most once; it is still on disk exactly when that call
\* failed (so a path after a failed one was still attempted, and a path
\* without a call did not exist); nothing but unlinkSync calls follows the
\* start of cleanup; and with a failed deletion the exit status is still 1
\* exactly when a stage failed.
C14_CleanupSwallowsFailures ==
    pc = "exited" =>
        /\ \A c \in Positions("cleanup") :
              /\ NoneAfter(c, {"uncaught", "caught", "error", "toplevel_error", "cleanup"})
              /\ \A f \in Range(events[c].files) :
                    LET deleted == \E j \in Positions("unlink") : j > c /\ events[j].file = f
                        failed == \E j \in Positions("unlink_failed") : j > c /\ events[j].file = f
                    IN /\ ~(deleted /\ failed)
                       /\ f \in DOMAIN disk <=> failed
        /\ Happened("unlink_failed") =>
              /\ exitCode = 1 <=> FailedStages # {}
              /\ Happened("success") => exitCode = 0

\* the deletion of the first path failed and the second path was deleted
C14_Witness ==
    /\ pc = "exited"
    /\ \E i \in Positions("unlink_failed") : \E j \in Positions("unlink") : j > i

(***************************************************************************)
(* C15                                                                     *)
(***************************************************************************)
BackupStages == {"pack", "pack_done", "upload"}
RestoreStages == {"list", "selected", "download", "unzip", "import"}

\* C15 as claimed: an invocation runs one pipeline at a time, and once the
\* chosen pipeline has run to completion (its cleanup is done) control is
\* back at the main menu.
C15_ReturnsToMenu ==
    /\ ~(IsBackupRun /\ IsRestoreRun)
    /\ Happened("cleanup") => pc = "menu"

\* C15 as amended: an invocation shows the main menu once and runs at most
\* one pipeline, only the stages of the chosen one; once that pipeline has
\* run to completion the process has ended, and the menu is not shown again.
C15_OnePipelineThenExit ==
    /\ Count("menu") <= 1
    /\ Cardinality({i \in Positions("prompt") : events[i].text = "menu"}) <= 1
    /\ ~(IsBackupRun /\ IsRestoreRun)
    /\ \A i \in 1..Len(events) :
          /\ events[i].ev \in BackupStages => (IsBackupRun /\ ~IsRestoreRun)
          /\ events[i].ev \in RestoreStages => (IsRestoreRun /\ ~IsBackupRun)
    /\ \A c \in Positions("cleanup") :
          /\ pc = "exited"
          /\ NoneAfter(c, {"prompt", "menu"} \cup BackupStages \cup RestoreStages)

\* a pipeline has run to completion
C15_Witness ==
    /\ pc = "exited"
    /\ Happened("cleanup")
    /\ Happened("success")

(***************************************************************************)
(* C16                                                                     *)
(***************************************************************************)
\* the upload that started at position u of the history is over before
\* position i: it completed or it failed
UploadOverBefore(u, i) ==
    \E j \in (u + 1)..(i - 1) :
        \/ events[j].ev = "upload_done"
        \/ events[j].ev = "error" /\ events[j].text = "upload"

\* C16: while the upload is in progress the archive is on disk, complete and
\* not deleted; every attempt to delete the archive comes after the upload
\* completed or failed; and the backup reports success only after the upload
\* completed and stored the archive under its name.
C16_ArchiveKeptDuringUpload ==
    IsBackupRun =>
        /\ pc = "b_upload" =>
              /\ zipFile \in DOMAIN disk
              /\ disk[zipFile].complete
              /\ UnlinkAttempts = {}
        /\ \A u \in Positions("upload") :
              \A i \in Positions("unlink") \cup Positions("unlink_failed") :
                  events[i].file = events[u].file => (i > u /\ UploadOverBefore(u, i))
        /\ \A s \in Positions("success") :
              /\ \E u \in Positions("upload") : \E j \in (u + 1)..(s - 1) :
                    events[j].ev = "upload_done"
              /\ \E k \in 1..Len(remote) :
                    remote[k].name = zipFile /\ remote[k].createdTime = now

\* a backup whose upload completed and whose archive was then deleted
C16_Witness ==
    /\ pc = "exited"
    /\ IsBackupRun
    /\ Happened("success")
    /\ \E u \in Positions("upload_done") : \E i \in Positions("unlink") :
          i > u /\ events[i].file = zipFile

(***************************************************************************)
(* C17                                                                     *)
(***************************************************************************)
\* C17: a step of a run changes or removes a file that is on disk only if
\* the run created that file earlier; a file that was there before the run
\* wrote anything under its name is neither overwritten nor deleted.
C17_OnlyOwnFilesTouched ==
    [][\A f \in DOMAIN disk :
          (f \notin DOMAIN disk' \/ disk'[f] # disk[f]) => f \in CreatedFiles]_vars

====
